---------------------------- MODULE Spec2Model ----------------------------
(***************************************************************************)
(* Translation pipeline of paradox-auto-translate:                         *)
(*   translate (dispatcher)  -> dictionary -> cache -> translateAI ->      *)
(*   addQueue / processQueue / executeTaskWithRetry -> validateTranslation *)
(*   -> setCache.                                                          *)
(* Texts are sequences of one-character strings, so that trim,             *)
(* toLowerCase, includes and the regular expressions of the source are     *)
(* computed character by character.                                        *)
(***************************************************************************)
EXTENDS Integers, Sequences, FiniteSets, TLC

(***************************************************************************)
(* Characters and character classes used by the regular expressions.       *)
(***************************************************************************)
LowerSeq == <<"a","b","c","d","e","f","g","h","i","j","k","l","m",
              "n","o","p","q","r","s","t","u","v","w","x","y","z">>
UpperSeq == <<"A","B","C","D","E","F","G","H","I","J","K","L","M",
              "N","O","P","Q","R","S","T","U","V","W","X","Y","Z">>
Lower == {LowerSeq[i] : i \in 1..26}
Upper == {UpperSeq[i] : i \in 1..26}
Digit == {"0","1","2","3","4","5","6","7","8","9"}
\* Characters outside ASCII are written as names: "K:wang" is the Hangul
\* syllable U+C655 (wang), "POUND" is the pound sign U+00A3.
\* Hangul: the members of the range [U+AC00-U+D7A3] that occur in the texts
\* of the model.
Hangul == {"K:ga","K:hih","K:wang","K:ne","K:beon","K:yeok","K:ip","K:ni",
           "K:da","K:al","K:get","K:seup","K:yo","K:cheong","K:ha","K:sin",
           "K:yak","K:ge","K:hwa","K:doen","K:han","K:gang","K:jo","K:pap"}
WhiteSpace == {" ", "\n", "\t"}
\* \w of a JavaScript regular expression without the u flag
WordChar == Lower \cup Upper \cup Digit \cup {"_"}
\* [a-zA-Z0-9_\-.]
VarChar == WordChar \cup {"-", "."}

(***************************************************************************)
(* String primitives of the JavaScript runtime.                            *)
(***************************************************************************)
Min(S) == CHOOSE x \in S : \A y \in S : x <= y
Max(S) == CHOOSE x \in S : \A y \in S : x >= y

\* String.prototype.trim
Trim(t) ==
  LET keep == {i \in 1..Len(t) : t[i] \notin WhiteSpace}
  IN  IF keep = {} THEN <<>> ELSE SubSeq(t, Min(keep), Max(keep))

ToLowerChar(c) ==
  IF c \in Upper THEN LowerSeq[CHOOSE i \in 1..26 : UpperSeq[i] = c] ELSE c

\* String.prototype.toLowerCase
ToLowerCase(t) == [i \in 1..Len(t) |-> ToLowerChar(t[i])]

\* the substring of t of length n that starts at position i (1-based)
At(t, i, p) == i >= 1 /\ i + Len(p) - 1 <= Len(t) /\ SubSeq(t, i, i + Len(p) - 1) = p

\* String.prototype.includes
Includes(t, p) == \E i \in 1..(Len(t) + 1) : At(t, i, p)

\* String.prototype.replaceAll(pattern, replacement) for a literal pattern,
\* scanning left to right without overlapping matches
RECURSIVE ReplaceFrom(_, _, _, _)
ReplaceFrom(t, i, p, r) ==
  IF i > Len(t) THEN <<>>
  ELSE IF At(t, i, p) THEN r \o ReplaceFrom(t, i + Len(p), p, r)
  ELSE <<t[i]>> \o ReplaceFrom(t, i + 1, p, r)
ReplaceAll(t, p, r) == ReplaceFrom(t, 1, p, r)

AllIn(t, S) == \A i \in 1..Len(t) : t[i] \in S


(***************************************************************************)
(* Structural validator: detectMalformedVariables.                         *)
(***************************************************************************)
\* length of the maximal run of characters of S that starts at position i
RECURSIVE RunLen(_, _, _)
RunLen(t, i, S) ==
  IF i >= 1 /\ i <= Len(t) /\ t[i] \in S THEN 1 + RunLen(t, i + 1, S) ELSE 0

CharAt(t, i) == IF i >= 1 /\ i <= Len(t) THEN t[i] ELSE "EOT"

\* the matches of a two-character pattern such as /\$\[/g
Pair(t, a, b) == IF Includes(t, <<a, b>>) THEN {<<a, b>>} ELSE {}

\* /\$\s+\w+\s+\$/g
SpacedDollar(t) ==
  {SubSeq(t, i, j) : <<i, j>> \in
     {ij \in (1..Len(t)) \X (1..Len(t)) :
        LET i  == ij[1]
            j  == ij[2]
            s1 == RunLen(t, i + 1, WhiteSpace)
            w  == RunLen(t, i + 1 + s1, WordChar)
            s2 == RunLen(t, i + 1 + s1 + w, WhiteSpace)
        IN  /\ t[i] = "$" /\ s1 >= 1 /\ w >= 1 /\ s2 >= 1
            /\ j = i + 1 + s1 + w + s2 /\ CharAt(t, j) = "$"}}

\* text.match(/c[a-zA-Z0-9_\-.]+c/g): leftmost matches, not overlapping
RECURSIVE CompleteFrom(_, _, _)
CompleteFrom(t, c, i) ==
  IF i > Len(t) THEN {}
  ELSE LET n == RunLen(t, i + 1, VarChar)
       IN  IF t[i] = c /\ n >= 1 /\ CharAt(t, i + n + 1) = c
           THEN {SubSeq(t, i, i + n + 1)} \cup CompleteFrom(t, c, i + n + 2)
           ELSE CompleteFrom(t, c, i + 1)

\* text.match(/c[a-zA-Z0-9_\-.]+(?!c)/g): the greedy run gives back one
\* character when it is followed by c
RECURSIVE StartFrom(_, _, _)
StartFrom(t, c, i) ==
  IF i > Len(t) THEN {}
  ELSE LET n == RunLen(t, i + 1, VarChar)
       IN  IF t[i] = c /\ n >= 1 /\ CharAt(t, i + n + 1) # c
           THEN {SubSeq(t, i, i + n)} \cup StartFrom(t, c, i + n + 1)
           ELSE IF t[i] = c /\ n >= 2
           THEN {SubSeq(t, i, i + n - 1)} \cup StartFrom(t, c, i + n)
           ELSE StartFrom(t, c, i + 1)

\* text.match(/(?<!c)[a-zA-Z0-9_\-.]+c/g)
RECURSIVE EndFrom(_, _, _)
EndFrom(t, c, i) ==
  IF i > Len(t) THEN {}
  ELSE LET n == RunLen(t, i, VarChar)
       IN  IF n >= 1 /\ CharAt(t, i - 1) # c /\ CharAt(t, i + n) = c
           THEN {SubSeq(t, i, i + n)} \cup EndFrom(t, c, i + n + 1)
           ELSE EndFrom(t, c, i + 1)

\* step 6: start and end fragments that are part of no complete variable
Unbalanced(t, c) ==
  {p \in StartFrom(t, c, 1) \cup EndFrom(t, c, 1) :
     ~ \E complete \in CompleteFrom(t, c, 1) : Includes(complete, p)}

\* step 7: /\[c[^\]]*c\]/g
ComplexMixed(t, c) ==
  {SubSeq(t, ij[1], ij[2]) : ij \in
     {ij \in (1..Len(t)) \X (1..Len(t)) :
        /\ ij[2] >= ij[1] + 3
        /\ At(t, ij[1], <<"[", c>>)
        /\ At(t, ij[2] - 1, <<c, "]">>)
        /\ \A k \in (ij[1] + 2)..(ij[2] - 2) : t[k] # "]"}}

detectMalformedVariables(text) ==
  Pair(text, "$", "[") \cup Pair(text, "$", "<") \cup SpacedDollar(text)
  \cup Pair(text, "POUND", "[") \cup Pair(text, "POUND", "<")
  \cup Pair(text, "@", "[") \cup Pair(text, "@", "<")
  \cup Pair(text, "[", "$") \cup Pair(text, "[", "POUND")
  \cup Pair(text, "[", "@") \cup Pair(text, "[", "<")
  \cup Pair(text, "<", "$") \cup Pair(text, "<", "[") \cup Pair(text, "<", "POUND")
  \cup Unbalanced(text, "$") \cup Unbalanced(text, "POUND") \cup Unbalanced(text, "@")
  \cup ComplexMixed(text, "$") \cup ComplexMixed(text, "POUND")
  \cup ComplexMixed(text, "@")

(***************************************************************************)
(* Structural validator: phrases, style markers, technical identifiers.    *)
(***************************************************************************)
unwantedPhrases ==
  { <<"K:ne", ",", " ", "K:al", "K:get", "K:seup", "K:ni", "K:da">>,
    <<"K:ne", " ", "K:al", "K:get", "K:seup", "K:ni", "K:da">>,
    <<"K:yo", "K:cheong", "K:ha", "K:sin">>,
    <<"K:beon", "K:yeok", "K:ip", "K:ni", "K:da">>,
    <<"y","e","s",","," ","i"," ","u","n","d","e","r","s","t","a","n","d">>,
    <<"h","e","r","e"," ","i","s"," ","t","h","e"," ",
      "t","r","a","n","s","l","a","t","i","o","n">>,
    <<"h","e","r","e","'","s"," ","t","h","e"," ",
      "t","r","a","n","s","l","a","t","i","o","n">> }

hasUnwantedPhrase(translation) ==
  \E phrase \in unwantedPhrases :
     Includes(ToLowerCase(translation), ToLowerCase(phrase))

\* normalizedSource.match(/#[a-z]+\s/gi)
stylePatterns(source) ==
  {SubSeq(source, i, i + RunLen(source, i + 1, Lower \cup Upper) + 1) :
     i \in {k \in 1..Len(source) :
              LET n == RunLen(source, k + 1, Lower \cup Upper)
              IN  source[k] = "#" /\ n >= 1
                  /\ CharAt(source, k + n + 1) \in WhiteSpace}}

\* /#[U+AC00-U+D7A3]{2,}\s/.test(translation)
translatedStylePattern(translation) ==
  \E k \in 1..Len(translation) :
     LET n == RunLen(translation, k + 1, Hangul)
     IN  translation[k] = "#" /\ n >= 2
         /\ CharAt(translation, k + n + 1) \in WhiteSpace

\* a word of the form [a-z][a-z]*(?:_[a-z]+)+
IsSnakeCase(w) ==
  /\ Len(w) >= 3
  /\ AllIn(w, Lower \cup {"_"})
  /\ w[1] # "_" /\ w[Len(w)] # "_"
  /\ \E k \in 1..Len(w) : w[k] = "_"
  /\ \A k \in 1..(Len(w) - 1) : ~(w[k] = "_" /\ w[k + 1] = "_")

\* normalizedSource.match(/(?<![@$POUND])\b[a-z][a-z]*(?:_[a-z]+)+\b(?![!])/g):
\* both \b force the match to be a whole word
technicalIdentifiers(source) ==
  {SubSeq(source, i, i + RunLen(source, i, WordChar) - 1) :
     i \in {k \in 1..Len(source) :
              LET n == RunLen(source, k, WordChar)
              IN  /\ n >= 1
                  /\ CharAt(source, k - 1) \notin WordChar \cup {"@", "$", "POUND"}
                  /\ IsSnakeCase(SubSeq(source, k, k + n - 1))
                  /\ CharAt(source, k + n) # "!"}}

(***************************************************************************)
(* Structural validator: game variables and validateTranslation.           *)
(***************************************************************************)
\* position of the first "]" at or after i, 0 when there is none
RECURSIVE FirstClose(_, _)
FirstClose(t, i) ==
  IF i > Len(t) THEN 0 ELSE IF t[i] = "]" THEN i ELSE FirstClose(t, i + 1)

\* \|[A-Z] | Get[A-Z] | [a-z_]+\.[A-Z] | [a-z_]+_i  somewhere in inner
HasGameVariableMark(inner) ==
  \E k \in 1..Len(inner) :
     \/ inner[k] = "|" /\ CharAt(inner, k + 1) \in Upper
     \/ At(inner, k, <<"G", "e", "t">>) /\ CharAt(inner, k + 3) \in Upper
     \/ /\ inner[k] \in Lower \cup {"_"}
        /\ CharAt(inner, k + 1) = "." /\ CharAt(inner, k + 2) \in Upper
     \/ /\ inner[k] \in Lower \cup {"_"}
        /\ CharAt(inner, k + 1) = "_" /\ CharAt(inner, k + 2) = "i"

\* text.match(gameVariablePattern), in order of occurrence
RECURSIVE GameVariablesFrom(_, _)
GameVariablesFrom(t, i) ==
  IF i > Len(t) THEN <<>>
  ELSE LET j == FirstClose(t, i + 1)
       IN  IF t[i] = "[" /\ j > 0 /\ HasGameVariableMark(SubSeq(t, i + 1, j - 1))
           THEN <<SubSeq(t, i, j)>> \o GameVariablesFrom(t, j + 1)
           ELSE GameVariablesFrom(t, i + 1)

\* text.replace(/\s+/g, ' ')
RECURSIVE normalizeGameVar(_)
normalizeGameVar(t) ==
  IF t = <<>> THEN <<>>
  ELSE IF t[1] \in WhiteSpace
       THEN <<" ">> \o normalizeGameVar(SubSeq(t, 1 + RunLen(t, 1, WhiteSpace), Len(t)))
       ELSE <<t[1]>> \o normalizeGameVar(Tail(t))

gameVariables(t) ==
  LET found == GameVariablesFrom(t, 1)
  IN  [k \in 1..Len(found) |-> normalizeGameVar(found[k])]

Range(f) == {f[k] : k \in DOMAIN f}

\* end of the string literal opened by the quote at position i under
\* (['"])((?:\\.|(?!\1)[^\\])*?)\1 ; 0 when the literal is not closed
RECURSIVE LiteralEnd(_, _, _)
LiteralEnd(t, q, k) ==
  IF k > Len(t) THEN 0
  ELSE IF t[k] = "\\" THEN (IF k + 1 > Len(t) THEN 0 ELSE LiteralEnd(t, q, k + 2))
  ELSE IF t[k] = q THEN k
  ELSE LiteralEnd(t, q, k + 1)

STRING_PLACEHOLDER == <<"'", "_", "_", "S", "T", "R", "I", "N", "G", "_", "_", "'">>

RECURSIVE NormalizeFrom(_, _)
NormalizeFrom(t, i) ==
  IF i > Len(t) THEN <<>>
  ELSE LET e == IF t[i] \in {"'", "\""} THEN LiteralEnd(t, t[i], i + 1) ELSE 0
       IN  IF e > 0 THEN STRING_PLACEHOLDER \o NormalizeFrom(t, e + 1)
           ELSE <<t[i]>> \o NormalizeFrom(t, i + 1)

normalizeGameVariableStructure(variable) == NormalizeFrom(variable, 1)

\* position of the next q at or after k, 0 when there is none
RECURSIVE NextQuote(_, _, _)
NextQuote(t, q, k) ==
  IF k > Len(t) THEN 0 ELSE IF t[k] = q THEN k ELSE NextQuote(t, q, k + 1)

\* variable.replace(/(['"])(?:(?!\1).)*?\1/g, '')
RECURSIVE WithoutLiteralsFrom(_, _)
WithoutLiteralsFrom(t, i) ==
  IF i > Len(t) THEN <<>>
  ELSE LET e == IF t[i] \in {"'", "\""} THEN NextQuote(t, t[i], i + 1) ELSE 0
       IN  IF e > 0 THEN WithoutLiteralsFrom(t, e + 1)
           ELSE <<t[i]>> \o WithoutLiteralsFrom(t, i + 1)

withoutStringLiterals(variable) == WithoutLiteralsFrom(variable, 1)

hasKorean(variable) ==
  \E k \in 1..Len(withoutStringLiterals(variable)) :
     withoutStringLiterals(variable)[k] \in Hangul

genderFunctions ==
  { <<"h","e","r","h","i","s">>, <<"h","e","r","h","i","m">>,
    <<"s","h","e","h","e">>, <<"w","o","m","a","n","m","a","n">>,
    <<"h","e","r","s","e","l","f","h","i","m","s","e","l","f">> }

\* (?:[a-zA-Z_]+\.)* under the i flag
IsNamespacePrefix(pre) ==
  \/ pre = <<>>
  \/ /\ AllIn(pre, Lower \cup {"_", "."})
     /\ pre[1] # "." /\ pre[Len(pre)] = "."
     /\ \A k \in 1..(Len(pre) - 1) : ~(pre[k] = "." /\ pre[k + 1] = ".")

\* genderFunctionPattern.test(v); v ends with its only "]"
genderFunctionPattern(v) ==
  \E p \in 1..Len(v) :
     /\ v[p] = "["
     /\ v[Len(v)] = "]"
     /\ \E body \in
          {ToLowerCase(SubSeq(v, p + 1, Len(v) - 1))} \cup
          (IF Len(v) - p >= 3 /\ v[Len(v) - 2] = "|"
              /\ v[Len(v) - 1] \in Lower \cup Upper
           THEN {ToLowerCase(SubSeq(v, p + 1, Len(v) - 3))} ELSE {}) :
          \E f \in genderFunctions :
             LET name == <<"g", "e", "t">> \o f
                 cut  == Len(body) - Len(name)
             IN  /\ cut >= 0
                 /\ SubSeq(body, cut + 1, Len(body)) = name
                 /\ IsNamespacePrefix(SubSeq(body, 1, cut))

\* reportedReason testing for unwanted phrases before malformed variables
reportedReason_PhraseFirst(malformed, unwanted, style, identifier, missing, korean) ==
  IF unwanted THEN "unwanted"
  ELSE IF malformed THEN "malformed"
  ELSE IF style THEN "style"
  ELSE IF identifier THEN "identifier"
  ELSE IF missing THEN "missingVariable"
  ELSE IF korean THEN "koreanVariable"
  ELSE "valid"

\* the order of the early returns of validateTranslation
reportedReason(malformed, unwanted, style, identifier, missing, korean) ==
  IF malformed THEN "malformed"
  ELSE IF unwanted THEN "unwanted"
  ELSE IF style THEN "style"
  ELSE IF identifier THEN "identifier"
  ELSE IF missing THEN "missingVariable"
  ELSE IF korean THEN "koreanVariable"
  ELSE "valid"

\* the reason of the first failing check, "valid" when every check passes
validationReason(sourceText, translatedText) ==
  LET normalizedSource == Trim(sourceText)
      normalizedTranslation == Trim(translatedText)
      sourceGameVariables == gameVariables(normalizedSource)
      translationGameVariables == gameVariables(normalizedTranslation)
      filteredSourceVars ==
        {v \in Range(sourceGameVariables) : ~genderFunctionPattern(v)}
      missingVars ==
        {sv \in filteredSourceVars :
           ~ \E tv \in Range(translationGameVariables) :
               normalizeGameVariableStructure(tv) = normalizeGameVariableStructure(sv)}
  IN  reportedReason(
        detectMalformedVariables(normalizedTranslation) # {},
        hasUnwantedPhrase(normalizedTranslation),
        /\ \E sp \in stylePatterns(normalizedSource) :
              ~Includes(normalizedTranslation, sp)
        /\ translatedStylePattern(normalizedTranslation),
        \E id \in technicalIdentifiers(normalizedSource) :
           ~Includes(normalizedTranslation, id),
        Len(sourceGameVariables) > 0 /\ missingVars # {},
        /\ Len(sourceGameVariables) > 0
        /\ \E v \in Range(translationGameVariables) : hasKorean(v))

validateTranslation(sourceText, translatedText) ==
  [isValid |-> validationReason(sourceText, translatedText) = "valid",
   reason  |-> validationReason(sourceText, translatedText)]

(***************************************************************************)
(* Bounds of the model.                                                    *)
(***************************************************************************)
NProcs == 3          \* concurrent callers (dispatches / direct queue clients)
NDispatches == 2     \* of which run translate in Spec
MaxCalls == 2        \* translate calls in one run
MaxFailures == 2     \* failing service invocations while the service is up (SpecQueue)
MaxTicks == 2        \* small clock steps in one run
MaxFaults == 1       \* rejections of the cache storage in one run (SpecBatch)
MaxLen == 4          \* length of the generated candidate translations (SpecValidate)
StartTime == 1000    \* Date.now() when the process starts

Procs == 1..NProcs
Dispatchers == 1..NDispatches
TickSteps == {125, 250}

(***************************************************************************)
(* Program constants.                                                      *)
(***************************************************************************)
MAX_RETRIES == 5
RETRY_DELAYS == <<0, 1000, 2000, 8000, 10000, 60000>>
RATE_LIMIT_INTERVAL == 250
\* RETRY_DELAYS[k] of the source, whose arrays start at index 0
RetryDelay(k) == RETRY_DELAYS[k + 1]
\* the ceiling of "if (retry > 5)" in translate
RETRY_CEILING == 5

GameTypes == {"ck3", "vic3"}
GameTypeText(g) == IF g = "ck3" THEN <<"c", "k", "3">> ELSE <<"v", "i", "c", "3">>

(***************************************************************************)
(* Texts of the model: source texts, service responses, dictionaries.      *)
(***************************************************************************)
SrcPadded == <<" ", "h", "i">>
SrcIdent  == <<"a", "_", "b">>
SrcDollar == <<"$", "a", "$", " ">>
SrcOk     == <<"O", "k">>
SrcBlank  == <<" ">>
Sources == {SrcPadded, SrcIdent, SrcDollar, SrcOk, SrcBlank}
\* the calls of translate that the callers of the model make
Requests ==
  { <<SrcPadded, "vic3">>, <<SrcIdent, "ck3">>,
    <<SrcDollar, "ck3">>, <<SrcOk, "vic3">>, <<SrcBlank, "ck3">> }

RespGood      == <<"a", "_", "b", "\n", "K:wang", " ">>
RespLost      == <<"K:wang">>
RespRefusal   == <<"L", "a", "n", "g", "u", "a", "g", "e", " ", "m", "o", "d", "e", "l">>
RespMalformed == <<"$", "[", "K:wang">>
Responses == {RespGood, RespLost, RespRefusal}

\* texts of a localization file, as parseYaml delivers them: trimmed and
\* not empty
SrcKings   == <<"k", "i", "n", "g", "s">>
SrcRice    == <<"R", "I", "C", "E">>
SrcToken   == <<"$", "a", "$">>
\* keys given to the invalidation command
SrcKing    == <<"K", "i", "n", "g">>

\* one text of each pure-placeholder form, some with surrounding blanks
TokDollar     == <<"$", "a", "$", " ">>
TokPound      == <<" ", "POUND", "g", "POUND">>
TokAt         == <<"@", "a", ".", "b", "@">>
TokAngle      == <<"<", "a", "-", "b", ">">>
TokDotted     == <<"[", "a", ".", "B", "]">>
TokPiped      == <<"[", "a", "|", "E", "]", " ">>
TokFormat     == <<"#", "b", "#">>
TokFormatBang == <<"#", "b", "#", "!">>
PlaceholderTexts ==
  { TokDollar, TokPound, TokAt, TokAngle, TokDotted, TokPiped, TokFormat,
    TokFormatBang }
\* texts that differ from a dictionary key in letter case or blanks
SrcKingPadded == <<" ", "K", "I", "N", "G">>
SrcRiceLower  == <<"r", "i", "c", "e">>
DictionaryTexts == { SrcKingPadded, SrcRice, SrcRiceLower, SrcOk }
\* the calls of translate made in SpecLookup
LookupRequests ==
  {<<t, "ck3">> : t \in PlaceholderTexts \cup DictionaryTexts}
    \cup { <<SrcOk, "vic3">>, <<SrcKingPadded, "vic3">>, <<SrcIdent, "ck3">> }

LANGUAGE_MODEL == <<"l", "a", "n", "g", "u", "a", "g", "e", " ", "m", "o", "d", "e", "l">>

\* entries of ck3Dictionaries and vic3Dictionaries
ck3Dictionaries ==
  [k \in { <<"o", "k">>, <<"k", "i", "n", "g">>, <<"R", "I", "C", "E">> } |->
     IF k = <<"o", "k">> THEN <<"K:ne">>
     ELSE IF k = <<"k", "i", "n", "g">> THEN <<"K:wang">>
     ELSE <<"R", "I", "C", "E">>]
vic3Dictionaries == [k \in { <<"o", "k">> } |-> <<"K:ne">>]

getDictionaries(gameType) ==
  IF gameType = "ck3" THEN ck3Dictionaries ELSE vic3Dictionaries

normalizeKey(key) == ToLowerCase(key)

\* hasDictionary comparing the text as it is written
hasDictionary_Exact(key, gameType) ==
  key \in DOMAIN getDictionaries(gameType)

hasDictionary(key, gameType) ==
  normalizeKey(key) \in DOMAIN getDictionaries(gameType)

\* null is never returned to translate, which asks hasDictionary first
getDictionary(key, gameType) == getDictionaries(gameType)[normalizeKey(key)]

(***************************************************************************)
(* Persistent cache: a function from storage keys to stored values.        *)
(***************************************************************************)
\* getCacheKey prefixing the keys of every game, ck3 included
getCacheKey_AllPrefixed(key, gameType) ==
  GameTypeText(gameType) \o <<":">> \o key

getCacheKey(key, gameType) ==
  IF gameType = "ck3" THEN key ELSE GameTypeText(gameType) \o <<":">> \o key

hasCache(store, key, gameType) == getCacheKey(key, gameType) \in DOMAIN store

\* the null of getItem for a missing key
NULL == <<"NULL">>

getCache(store, key, gameType) ==
  IF getCacheKey(key, gameType) \in DOMAIN store
  THEN store[getCacheKey(key, gameType)] ELSE NULL

setCache(store, key, value, gameType) ==
  (getCacheKey(key, gameType) :> value) @@ store

removeCache(store, key, gameType) ==
  [k \in DOMAIN store \ {getCacheKey(key, gameType)} |-> store[k]]

EmptyCache == [k \in {} |-> <<>>]
\* caches left by earlier runs; earlier versions of translate stored the
\* response without validating it
InitialCaches ==
  { EmptyCache,
    (SrcIdent :> RespLost) @@ (getCacheKey(SrcOk, "vic3") :> RespLost),
    (SrcIdent :> <<>>) }

(***************************************************************************)
(* Content hash of a source text.  h64 is a fixed-width digest that is not *)
(* injective; the model computes a digest of one byte over the character   *)
(* codes and writes it as two hexadecimal digits.                          *)
(***************************************************************************)
HexSeq == <<"0","1","2","3","4","5","6","7","8","9","a","b","c","d","e","f">>

CharCode(c) ==
  IF c \in Lower THEN 96 + (CHOOSE i \in 1..26 : LowerSeq[i] = c)
  ELSE IF c \in Upper THEN 64 + (CHOOSE i \in 1..26 : UpperSeq[i] = c)
  ELSE IF c = " " THEN 32
  ELSE IF c = "$" THEN 36
  ELSE IF c = "_" THEN 95
  ELSE 63

RECURSIVE Digest(_, _)
Digest(data, h) ==
  IF data = <<>> THEN h
  ELSE Digest(Tail(data), (h * 31 + CharCode(Head(data))) % 256)

hashing(data) ==
  LET h == Digest(data, 7)
  IN  <<HexSeq[(h \div 16) + 1], HexSeq[(h % 16) + 1]>>

(***************************************************************************)
(* Pure-placeholder patterns of translate.                                 *)
(***************************************************************************)
\* ^c[a-zA-Z0-9_\-.]+e$
Wrapped(t, c, e) ==
  Len(t) >= 3 /\ t[1] = c /\ t[Len(t)] = e
  /\ AllIn(SubSeq(t, 2, Len(t) - 1), VarChar)

\* [a-zA-Z_][a-zA-Z0-9_]*(?:\.[a-zA-Z_][a-zA-Z0-9_]*)*
IsDottedName(t) ==
  /\ Len(t) >= 1
  /\ AllIn(t, WordChar \cup {"."})
  /\ t[Len(t)] # "."
  /\ \A k \in 1..Len(t) :
        (k = 1 \/ t[k - 1] = ".") => t[k] \in Lower \cup Upper \cup {"_"}

\* \w+\|\w+
IsPipedName(t) ==
  \E k \in 2..(Len(t) - 1) :
     /\ t[k] = "|"
     /\ AllIn(SubSeq(t, 1, k - 1), WordChar)
     /\ AllIn(SubSeq(t, k + 1, Len(t)), WordChar)

DOLLAR_VARIABLE_REGEX(t) == Wrapped(t, "$", "$")
POUND_VARIABLE_REGEX(t) == Wrapped(t, "POUND", "POUND")
AT_VARIABLE_REGEX(t) == Wrapped(t, "@", "@")
ANGLE_VARIABLE_REGEX(t) == Wrapped(t, "<", ">")
SQUARE_BRACKET_REGEX(t) ==
  /\ Len(t) >= 3 /\ t[1] = "[" /\ t[Len(t)] = "]"
  /\ \/ IsDottedName(SubSeq(t, 2, Len(t) - 1))
     \/ IsPipedName(SubSeq(t, 2, Len(t) - 1))
HASH_FORMAT_REGEX(t) ==
  LET u == IF Len(t) >= 1 /\ t[Len(t)] = "!" THEN SubSeq(t, 1, Len(t) - 1) ELSE t
  IN  /\ Len(u) >= 3 /\ u[1] = "#" /\ u[Len(u)] = "#"
      /\ AllIn(SubSeq(u, 2, Len(u) - 1), Lower \cup Upper \cup {"_"})

\* IsVariableOnly knowing only the dollar form
IsVariableOnly_DollarOnly(t) == DOLLAR_VARIABLE_REGEX(t)

IsVariableOnly(t) ==
  \/ DOLLAR_VARIABLE_REGEX(t) \/ POUND_VARIABLE_REGEX(t) \/ AT_VARIABLE_REGEX(t)
  \/ ANGLE_VARIABLE_REGEX(t) \/ SQUARE_BRACKET_REGEX(t) \/ HASH_FORMAT_REGEX(t)

(***************************************************************************)
(* Post-processing of the service response in translateAIByModel.          *)
(***************************************************************************)
\* replaceAll(/#U+C57D(U+D558 U+AC8C|U+D654 U+B41C|[U+D654 U+D55C])/g, '#weak')
RECURSIVE ReplaceWeakFrom(_, _)
ReplaceWeakFrom(t, i) ==
  IF i > Len(t) THEN <<>>
  ELSE IF At(t, i, <<"#", "K:yak", "K:ha", "K:ge">>)
         \/ At(t, i, <<"#", "K:yak", "K:hwa", "K:doen">>)
       THEN <<"#", "w", "e", "a", "k">> \o ReplaceWeakFrom(t, i + 4)
  ELSE IF At(t, i, <<"#", "K:yak", "K:hwa">>) \/ At(t, i, <<"#", "K:yak", "K:han">>)
       THEN <<"#", "w", "e", "a", "k">> \o ReplaceWeakFrom(t, i + 3)
  ELSE <<t[i]>> \o ReplaceWeakFrom(t, i + 1)

PostProcess(raw) ==
  LET a == Trim(raw)
      b == ReplaceAll(a, <<"\n">>, <<"\\", "n">>)
      c == ReplaceAll(b, <<"\"">>, <<"\\", "\"">>)
      d == ReplaceWeakFrom(c, 1)
  IN  ReplaceAll(d, <<"#", "K:gang", "K:jo">>, <<"#", "b", "o", "l", "d">>)

(***************************************************************************)
(* State.                                                                  *)
(***************************************************************************)
VARIABLES
  cache,             \* translationCache: storage key -> value
  dispatch,          \* per caller: position and locals of its translate call
  stats,             \* per caller: what its current call has done so far
  translationQueue,  \* pending tasks, each named by its owner
  lastRequestTime,
  isProcessing,
  loops,             \* the active activations of processQueue
  tasks,             \* per owner: status and invocation count of its task
  invoked,           \* per owner: service invocations made for it so far
  trace,             \* times of the latest invocations
  now,               \* Date.now()
  ticks,
  outage,            \* the service fails every invocation of this run
  failures,          \* failures the service may still produce while it is up
  calls,
  faults,            \* rejections the cache storage may still produce
  batch,             \* processLanguageFile and the translation file it works on
  harness            \* a direct caller of the validator or of the cache functions

queueVars == <<translationQueue, lastRequestTime, isProcessing, loops,
               tasks, invoked, trace>>
vars == <<cache, dispatch, stats, translationQueue, lastRequestTime,
          isProcessing, loops, tasks, invoked, trace, now, ticks, outage,
          failures, calls, faults, batch, harness>>

NoText == <<>>
IdleDispatch ==
  [pc |-> "idle", mode |-> "none", text |-> NoText, gameType |-> "ck3",
   retry |-> 0, translatedText |-> NoText, result |-> NoText,
   path |-> "none", error |-> NoText, model |-> "none"]
NoStats ==
  [base |-> 0, responses |-> 0, rejected |-> 0, cacheWrites |-> 0,
   evicted |-> 0, invalidSeen |-> FALSE, repeat |-> FALSE,
   first |-> NoText, snapshot |-> EmptyCache, faulted |-> FALSE,
   atFault |-> 0]
NoTrace ==
  [lastStart |-> -1, gapAny |-> -1, lastFirst |-> -1, gapFirst |-> -1,
   firstCount |-> 0, failTime |-> -1, retryIdx |-> 0, retryWait |-> -1,
   immediate |-> TRUE, waiting |-> 0]

\* an entry of a parsed localization file: [text, hash]
Entry(value, hash) == [value |-> value, hash |-> hash]
\* the undefined of a key that the file lacks
NoEntry == Entry(NULL, NULL)

\* the source file of the model, an ordered mapping from key to text
SourceFile == <<SrcKings, SrcIdent, SrcRice, SrcToken>>

\* the translation file written by an earlier run, whole or lacking a key
TranslatedFile ==
  << Entry(<<"K:wang">>, hashing(SrcKings)),
     Entry(<<"a", "_", "b">>, hashing(SrcIdent)),
     Entry(<<"K:pap">>, hashing(SrcRice)),
     Entry(SrcToken, hashing(SrcToken)) >>
\* the translation file whose third entry was translated from an older
\* source text, "King"
StaleFile ==
  [TranslatedFile EXCEPT ![3] = Entry(<<"K:pap">>, hashing(SrcKing))]
\* <<>> stands for the translation file that does not exist yet
TargetFiles ==
  { <<>>, TranslatedFile, [TranslatedFile EXCEPT ![1] = NoEntry], StaleFile }

\* the process that runs processLanguageFile
FileProc == CHOOSE d \in Procs : \A e \in Procs : d <= e

NoBatch ==
  [file |-> SourceFile, target |-> <<>>, gameType |-> "ck3", status |-> "idle",
   idx |-> 0, newYaml |-> <<>>, invalidated |-> FALSE, args |-> <<>>,
   before |-> <<>>, marked |-> {}, read |-> <<>>, called |-> {}]

\* the caches that the runs of SpecBatch start with
BatchCaches ==
  { EmptyCache,
    (SrcKings :> <<"K:wang">>) @@ (SrcIdent :> RespLost) }

InitCore(caches, flaky) ==
  /\ cache \in caches
  /\ dispatch = [d \in Procs |-> IdleDispatch]
  /\ stats = [d \in Procs |-> NoStats]
  /\ translationQueue = <<>>
  /\ lastRequestTime = 0
  /\ isProcessing = FALSE
  /\ loops = <<>>
  /\ tasks = [d \in Procs |-> [status |-> "none", invocations |-> 0]]
  /\ invoked = [d \in Procs |-> 0]
  /\ trace = NoTrace
  /\ now = StartTime
  /\ ticks = 0
  /\ outage \in BOOLEAN
  /\ failures = flaky
  /\ calls = 0

\* the direct caller before its call
NoHarness ==
  [pc |-> "idle", op |-> "none", source |-> NoText, translation |-> NoText,
   malformed |-> {}, isValid |-> FALSE, reason |-> "none",
   key |-> NoText, value |-> NoText, gameType |-> "ck3",
   found |-> FALSE, got |-> NoText, before |-> EmptyCache]

InitWith(caches, flaky) ==
  /\ InitCore(caches, flaky)
  /\ faults = 0
  /\ batch = NoBatch
  /\ harness = NoHarness

\* the service of Spec is up or down for the whole run
Init == InitWith(InitialCaches, 0)

(***************************************************************************)
(* Rate-limited retry queue (queue.ts).  Everything between two awaits of  *)
(* the source runs without interruption, so an action is one such stretch. *)
(***************************************************************************)
RemoveAt(seq, i) == SubSeq(seq, 1, i - 1) \o SubSeq(seq, i + 1, Len(seq))

\* the bookkeeping of one invocation of task(), at time now
Invoke(tr, first, retryCount) ==
  [tr EXCEPT
     !.gapAny = IF tr.lastStart < 0 THEN -1 ELSE now - tr.lastStart,
     !.lastStart = now,
     !.gapFirst = IF ~first THEN @ ELSE IF tr.lastFirst < 0 THEN -1 ELSE now - tr.lastFirst,
     !.lastFirst = IF first THEN now ELSE @,
     !.firstCount = IF first THEN @ + 1 ELSE @,
     !.retryIdx = IF first THEN @ ELSE retryCount,
     !.retryWait = IF first THEN @ ELSE now - tr.failTime]

\* rateLimitDelay without the wait
rateLimitDelay_None(timeSinceLastRequest) == 0

\* what processQueue waits before it takes the next task
rateLimitDelay(timeSinceLastRequest) ==
  IF timeSinceLastRequest < RATE_LIMIT_INTERVAL
  THEN RATE_LIMIT_INTERVAL - timeSinceLastRequest ELSE 0

\* translationQueue.shift(); lastRequestTime = Date.now();
\* executeTaskWithRetry(task) up to the await of task()
shiftAndExecute(ls, i, queue, proc, tsk, tr, inv) ==
  LET task == Head(queue)
  IN  /\ translationQueue' = Tail(queue)
      /\ lastRequestTime' = now
      /\ isProcessing' = proc
      /\ loops' = [ls EXCEPT ![i] =
                     [pc |-> "inFlight", task |-> task, retryCount |-> 0,
                      deadline |-> 0]]
      /\ tasks' = [tsk EXCEPT ![task] =
                     [status |-> "running", invocations |-> 1]]
      /\ invoked' = [inv EXCEPT ![task] = @ + 1]
      /\ trace' = [Invoke(tr, TRUE, 0) EXCEPT !.waiting = Len(Tail(queue))]

\* the head of the while loop of processQueue, for the activation ls[i]
loopHead(ls, i, queue, proc, tsk, tr, inv) ==
  IF queue = <<>>
  THEN /\ isProcessing' = FALSE
       /\ loops' = RemoveAt(ls, i)
       /\ translationQueue' = queue
       /\ tasks' = tsk /\ trace' = tr /\ invoked' = inv
       /\ UNCHANGED lastRequestTime
  ELSE IF rateLimitDelay(now - lastRequestTime) > 0
  THEN /\ loops' = [ls EXCEPT ![i] =
                      [pc |-> "rateWait", task |-> 0, retryCount |-> 0,
                       deadline |-> now + rateLimitDelay(now - lastRequestTime)]]
       /\ isProcessing' = proc
       /\ translationQueue' = queue
       /\ tasks' = tsk /\ trace' = tr /\ invoked' = inv
       /\ UNCHANGED lastRequestTime
  ELSE shiftAndExecute(ls, i, queue, proc, tsk, tr, inv)

NewLoop == [pc |-> "start", task |-> 0, retryCount |-> 0, deadline |-> 0]

\* processQueue(): isProcessing = true, then the loop
processQueue(queue, tsk) ==
  loopHead(Append(loops, NewLoop), Len(loops) + 1, queue, TRUE, tsk, trace, invoked)

\* startsProcessing without the test of isProcessing
startsProcessing_Always(processing) == TRUE

\* does addQueue start a new activation of processQueue?
startsProcessing(processing) == ~processing

\* push putting the new task in front of the waiting ones
push_Front(queue, newQueue) == <<newQueue>> \o queue

\* translationQueue.push(newQueue)
push(queue, newQueue) == Append(queue, newQueue)

addQueue(newQueue) ==
  LET queue == push(translationQueue, newQueue)
      tsk == [tasks EXCEPT ![newQueue] = [status |-> "queued", invocations |-> 0]]
  IN  IF startsProcessing(isProcessing)
      THEN processQueue(queue, tsk)
      ELSE /\ translationQueue' = queue
           /\ tasks' = tsk
           /\ UNCHANGED <<lastRequestTime, isProcessing, loops, invoked, trace>>

\* delay(ms) resolves no earlier than ms after the call
delayElapsed(deadline) == now >= deadline

\* processQueue after "await delay(RATE_LIMIT_INTERVAL - timeSinceLastRequest)"
RateWaitDone(i) ==
  /\ i \in 1..Len(loops)
  /\ loops[i].pc = "rateWait"
  /\ delayElapsed(loops[i].deadline)
  /\ translationQueue # <<>>
  /\ shiftAndExecute(loops, i, translationQueue, isProcessing, tasks, trace, invoked)
  /\ UNCHANGED <<cache, dispatch, stats, now, ticks, outage, failures, calls, faults, batch, harness>>

\* mayRetry giving up one retry early
mayRetry_OneLess(retryCount) == retryCount < MAX_RETRIES - 1

\* may executeTaskWithRetry try again after a failure with this retryCount?
mayRetry(retryCount) == retryCount < MAX_RETRIES

\* executeTaskWithRetry: task() rejects
TaskFail(i) ==
  /\ i \in 1..Len(loops)
  /\ loops[i].pc = "inFlight"
  /\ outage \/ failures > 0
  /\ failures' = IF outage THEN failures ELSE failures - 1
  /\ trace' = [trace EXCEPT !.failTime = now, !.immediate = FALSE]
  /\ IF mayRetry(loops[i].retryCount)
     THEN /\ loops' = [loops EXCEPT ![i].pc = "backoff",
                         ![i].deadline = now + RetryDelay(loops[i].retryCount + 1)]
          /\ UNCHANGED tasks
     ELSE \* "throw error": the rejection leaves executeTaskWithRetry and
          \* processQueue, whose promise nobody awaits
          /\ loops' = RemoveAt(loops, i)
          /\ tasks' = [tasks EXCEPT ![loops[i].task].status = "abandoned"]
  /\ UNCHANGED <<translationQueue, lastRequestTime, isProcessing, invoked,
                 cache, dispatch, stats, now, ticks, outage, calls, faults, batch, harness>>

\* executeTaskWithRetry after "await delay(retryDelay)": the recursive call
BackoffDone(i) ==
  /\ i \in 1..Len(loops)
  /\ loops[i].pc = "backoff"
  /\ delayElapsed(loops[i].deadline)
  /\ loops' = [loops EXCEPT ![i].pc = "inFlight",
                 ![i].retryCount = @ + 1]
  /\ tasks' = [tasks EXCEPT ![loops[i].task].invocations = @ + 1]
  /\ invoked' = [invoked EXCEPT ![loops[i].task] = @ + 1]
  /\ trace' = Invoke(trace, FALSE, loops[i].retryCount + 1)
  /\ UNCHANGED <<translationQueue, lastRequestTime, isProcessing,
                 cache, dispatch, stats, now, ticks, outage, failures, calls, faults, batch, harness>>

\* the task of translateAIByModel: generateContent answers raw, the task
\* calls resolve(translated) and returns; processQueue goes on
TaskRespond(i, raw) ==
  /\ i \in 1..Len(loops)
  /\ loops[i].pc = "inFlight"
  /\ ~outage
  /\ LET d == loops[i].task
     IN  /\ dispatch' =
              IF dispatch[d].pc = "translateAI"
              THEN [dispatch EXCEPT ![d].pc = "resolved",
                                    ![d].translatedText = PostProcess(raw)]
              ELSE dispatch
         /\ loopHead(loops, i, translationQueue, isProcessing,
                     [tasks EXCEPT ![d].status = "succeeded"],
                     [trace EXCEPT !.immediate = @ /\ now = trace.lastStart],
                     invoked)
  /\ UNCHANGED <<cache, stats, now, ticks, outage, failures, calls, faults, batch, harness>>

(***************************************************************************)
(* Time.                                                                   *)
(***************************************************************************)
PendingDeadlines ==
  {loops[i].deadline : i \in {k \in 1..Len(loops) :
                                 loops[k].pc \in {"rateWait", "backoff"}}}

\* time passes until the earliest pending delay is due
AwaitTimer ==
  /\ PendingDeadlines # {}
  /\ Min(PendingDeadlines) > now
  /\ now' = Min(PendingDeadlines)
  /\ UNCHANGED <<cache, dispatch, stats, queueVars, ticks, outage, failures, calls, faults, batch, harness>>

\* time passes by a small step: service latency, late timers, idle gaps
Tick(dt) ==
  /\ ticks < MaxTicks
  /\ ticks' = ticks + 1
  /\ now' = now + dt
  /\ UNCHANGED <<cache, dispatch, stats, queueVars, outage, failures, calls, faults, batch, harness>>

(***************************************************************************)
(* AI client (translateAI / translateAIByModel).                           *)
(***************************************************************************)
\* translateAI up to its await: the executor of the promise calls
\* translateAIByModel with the primary model, which calls addQueue.  The
\* promise of addQueue is fulfilled as soon as the task is pushed, so the
\* ".catch(reject)" of translateAI never runs and the promise of translateAI
\* is settled only by the resolve(translated) of the task.
translateAI(d) == addQueue(d)

PRIMARY_MODEL == "gemini-2.5-flash-preview-04-17"
SECONDARY_MODEL == "gemini-1.5-flash-8b"

\* the caller stands at "await translateAI(...)"; the task that translateAI
\* has queued is the one for the primary model
awaitAI(rec) == [rec EXCEPT !.pc = "translateAI", !.model = PRIMARY_MODEL]

\* a direct caller of the exported translateAI
CallTranslateAI(d, text) ==
  /\ dispatch[d].pc = "idle"
  /\ \A e \in 1..(d - 1) : dispatch[e].pc # "idle"
  /\ dispatch' = [dispatch EXCEPT ![d] =
                    awaitAI([IdleDispatch EXCEPT !.mode = "direct",
                                                 !.text = text])]
  /\ translateAI(d)
  /\ UNCHANGED <<cache, stats, now, ticks, outage, failures, calls, faults, batch, harness>>

(***************************************************************************)
(* Dispatcher (translate).                                                 *)
(***************************************************************************)
\* retryExceeded with the ceiling one too high
retryExceeded_OneMore(retry) == retry > RETRY_CEILING + 1

\* "if (retry > 5)"
retryExceeded(retry) == retry > RETRY_CEILING

\* translate(text, gameType, retry) up to "await hasCache(...)"
translateEntry(rec, retry) ==
  LET text == rec.text
      normalizedText == Trim(text)
  IN  IF retryExceeded(retry)
        THEN [rec EXCEPT !.pc = "thrown", !.retry = retry, !.error = text]
      ELSE IF text = <<>> \/ normalizedText = <<>>
        THEN [rec EXCEPT !.pc = "returned", !.retry = retry,
                         !.result = <<>>, !.path = "empty"]
      ELSE IF IsVariableOnly(normalizedText)
        THEN [rec EXCEPT !.pc = "returned", !.retry = retry,
                         !.result = normalizedText, !.path = "placeholder"]
      ELSE IF hasDictionary(normalizedText, rec.gameType)
        THEN [rec EXCEPT !.pc = "returned", !.retry = retry,
                         !.result = getDictionary(normalizedText, rec.gameType),
                         !.path = "dictionary"]
      ELSE [rec EXCEPT !.pc = "hasCache", !.retry = retry]

Call(d, text, gameType) ==
  /\ dispatch[d].pc \in {"idle", "returned", "thrown"}
  /\ \A e \in 1..(d - 1) : dispatch[e].pc # "idle"
  /\ calls < MaxCalls
  /\ calls' = calls + 1
  /\ dispatch' = [dispatch EXCEPT ![d] =
        translateEntry([IdleDispatch EXCEPT !.mode = "translate", !.text = text,
                                            !.gameType = gameType], 0)]
  /\ stats' = [stats EXCEPT ![d] =
        [NoStats EXCEPT
           !.base = invoked[d],
           !.repeat = /\ dispatch[d].pc = "returned" /\ dispatch[d].path = "ai"
                      /\ dispatch[d].text = text
                      /\ dispatch[d].gameType = gameType
                      /\ cache = stats[d].snapshot,
           !.first = dispatch[d].result,
           !.snapshot = stats[d].snapshot]]
  /\ UNCHANGED <<cache, queueVars, now, ticks, outage, failures, faults, batch, harness>>

\* the key under which translate looks the text up
lookupKey(text) == Trim(text)

\* the key under which translate stores the accepted translation
storeKey(text) == text

\* "if (cached)": null and the empty string are both falsy
truthy(cached) == cached # NULL /\ cached # <<>>

\* may translate return this cached value?
cacheUsable(normalizedText, cached) ==
  validateTranslation(normalizedText, cached).isValid

\* after "await hasCache(normalizedText, gameType)"
HasCacheDone(d) ==
  /\ dispatch[d].pc = "hasCache"
  /\ IF hasCache(cache, lookupKey(dispatch[d].text), dispatch[d].gameType)
     THEN /\ dispatch' = [dispatch EXCEPT ![d].pc = "getCache"]
          /\ UNCHANGED queueVars
     ELSE /\ dispatch' = [dispatch EXCEPT ![d] = awaitAI(@)]
          /\ translateAI(d)
  /\ UNCHANGED <<cache, stats, now, ticks, outage, failures, calls, faults, batch, harness>>

\* after "await getCache(normalizedText, gameType)"
GetCacheDone(d) ==
  /\ dispatch[d].pc = "getCache"
  /\ LET normalizedText == Trim(dispatch[d].text)
         cached == getCache(cache, lookupKey(dispatch[d].text), dispatch[d].gameType)
         valid == cached # NULL /\ validateTranslation(normalizedText, cached).isValid
     IN  /\ stats' = [stats EXCEPT ![d].invalidSeen = @ \/ (cached # NULL /\ ~valid)]
         /\ IF truthy(cached)
            THEN IF cacheUsable(normalizedText, cached)
                 THEN /\ dispatch' = [dispatch EXCEPT ![d].pc = "returned",
                                         ![d].result = cached, ![d].path = "cache"]
                      /\ UNCHANGED queueVars
                 ELSE /\ dispatch' = [dispatch EXCEPT ![d].pc = "removeCache"]
                      /\ UNCHANGED queueVars
            ELSE /\ dispatch' = [dispatch EXCEPT ![d] = awaitAI(@)]
                 /\ translateAI(d)
  /\ UNCHANGED <<cache, now, ticks, outage, failures, calls, faults, batch, harness>>

\* "await removeCache(normalizedText, gameType)", then translateAI
RemoveCacheDone(d) ==
  /\ dispatch[d].pc = "removeCache"
  /\ cache' = removeCache(cache, lookupKey(dispatch[d].text), dispatch[d].gameType)
  /\ stats' = [stats EXCEPT ![d].evicted = @ + 1]
  /\ dispatch' = [dispatch EXCEPT ![d] = awaitAI(@)]
  /\ translateAI(d)
  /\ UNCHANGED <<now, ticks, outage, failures, calls, faults, batch, harness>>

\* translatedText.toLowerCase().includes('language model')
isRefusal(translatedText) == Includes(ToLowerCase(translatedText), LANGUAGE_MODEL)

\* accepts without the test for the refusal signature
accepts_NoRefusalCheck(normalizedText, translatedText) ==
  validateTranslation(normalizedText, translatedText).isValid

\* does translate accept this response for this source text?
accepts(normalizedText, translatedText) ==
  /\ ~isRefusal(translatedText)
  /\ validateTranslation(normalizedText, translatedText).isValid

\* after "await translateAI(text, gameType)"
Resolved(d) ==
  /\ dispatch[d].pc = "resolved"
  /\ dispatch[d].mode = "translate"
  /\ IF accepts(Trim(dispatch[d].text), dispatch[d].translatedText)
     THEN /\ dispatch' = [dispatch EXCEPT ![d].pc = "setCache"]
          /\ stats' = [stats EXCEPT ![d].responses = @ + 1]
     ELSE \* return await translate(text, gameType, retry + 1)
          /\ dispatch' = [dispatch EXCEPT ![d] =
                            translateEntry([dispatch[d] EXCEPT !.translatedText = NoText],
                                           dispatch[d].retry + 1)]
          /\ stats' = [stats EXCEPT ![d].responses = @ + 1,
                                    ![d].rejected = @ + 1]
  /\ UNCHANGED <<cache, queueVars, now, ticks, outage, failures, calls, faults, batch, harness>>

\* "await setCache(text, translatedText, gameType)", then return
SetCacheDone(d) ==
  /\ dispatch[d].pc = "setCache"
  /\ cache' = setCache(cache, storeKey(dispatch[d].text),
                       dispatch[d].translatedText, dispatch[d].gameType)
  /\ dispatch' = [dispatch EXCEPT ![d].pc = "returned",
                                  ![d].result = dispatch[d].translatedText,
                                  ![d].path = "ai"]
  /\ stats' = [stats EXCEPT ![d].cacheWrites = @ + 1, ![d].snapshot = cache']
  /\ UNCHANGED <<queueVars, now, ticks, outage, failures, calls, faults, batch, harness>>

\* the error with which a failing cache operation rejects
CACHE_ERROR == <<"CACHE_ERROR">>

\* onCacheError swallowing the error and returning nothing
onCacheError_Swallow(rec) ==
  [rec EXCEPT !.pc = "returned", !.result = <<>>, !.path = "empty"]

\* translate has no handler around its cache operations: the rejection of
\* the awaited operation is the rejection of translate
onCacheError(rec) == [rec EXCEPT !.pc = "thrown", !.error = CACHE_ERROR]

\* "await hasCache / getCache / removeCache / setCache" rejects
CacheRejects(d) ==
  /\ dispatch[d].pc \in {"hasCache", "getCache", "removeCache", "setCache"}
  /\ faults > 0
  /\ faults' = faults - 1
  /\ dispatch' = [dispatch EXCEPT ![d] = onCacheError(@)]
  /\ stats' = [stats EXCEPT ![d].faulted = TRUE,
                            ![d].atFault = invoked[d] - stats[d].base]
  /\ UNCHANGED <<cache, queueVars, now, ticks, outage, failures, calls, batch, harness>>

(***************************************************************************)
(* Dictionary invalidation command (dictionary-invalidator).               *)
(***************************************************************************)
\* matchesKey comparing the key as it is written
matchesKey_CaseSensitive(normalizedSourceValue, key) ==
  Includes(normalizedSourceValue, key)

\* normalizedSourceValue.includes(key.toLowerCase())
matchesKey(normalizedSourceValue, key) ==
  Includes(normalizedSourceValue, ToLowerCase(key))

\* sourceValue.toLowerCase().trim()
normalizeSourceValue(sourceValue) == Trim(ToLowerCase(sourceValue))

\* [currentTranslation, '']
clearHash(entry) == Entry(entry.value, <<>>)

\* the loop over the entries of the source file, for a set of keys
invalidateEntries(source, target, keys) ==
  IF target = <<>> THEN target
  ELSE [i \in 1..Len(target) |->
          IF /\ \E key \in keys :
                   matchesKey(normalizeSourceValue(source[i]), key)
             /\ target[i] # NoEntry
          THEN clearHash(target[i]) ELSE target[i]]

invalidateTranslationFile(source, target, gameType) ==
  invalidateEntries(source, target, DOMAIN getDictionaries(gameType))

invalidateSpecificKeysInFile(source, target, gameType, targetKeys) ==
  invalidateEntries(source, target, Range(targetKeys))

\* the argument lists with which the command is run
CommandArgs == { <<>>, <<SrcKing>>, <<SrcOk>> }

\* main of the invalidation command, run before the translation run
InvalidateCommand(args) ==
  /\ batch.status = "idle"
  /\ ~batch.invalidated
  /\ LET target ==
           IF Len(args) = 0
           THEN invalidateTranslationFile(batch.file, batch.target, "ck3")
           ELSE invalidateSpecificKeysInFile(batch.file, batch.target, "ck3", args)
     IN  batch' = [batch EXCEPT
                     !.target = target, !.invalidated = TRUE, !.args = args,
                     !.before = batch.target,
                     !.marked = {i \in 1..Len(target) : target[i] # batch.target[i]}]
  /\ UNCHANGED <<cache, dispatch, stats, queueVars, now, ticks, outage,
                 failures, calls, faults, harness>>

(***************************************************************************)
(* Batch processing of one localization file (processLanguageFile).        *)
(***************************************************************************)
\* targetYaml[langKey][key] || []; without a translation file the content
\* of the source file is parsed in its place
targetEntry(b, i) ==
  IF b.target = <<>> THEN Entry(b.file[i], NULL) ELSE b.target[i]

\* keepsTranslation without the comparison of the hashes
keepsTranslation_AnyHash(targetValue, sourceHash, targetHash) ==
  truthy(targetValue)

\* is the stored translation of this entry kept?
keepsTranslation(targetValue, sourceHash, targetHash) ==
  truthy(targetValue) /\ sourceHash = targetHash

\* the for loop from entry b.idx up to its next await: the call of translate
\* or, behind the last entry, writeFile
RECURSIVE scan(_)
scan(b) ==
  IF b.idx > Len(b.file)
  THEN [b EXCEPT !.status = "written", !.target = b.newYaml]
  ELSE LET sourceHash == hashing(b.file[b.idx])
           t == targetEntry(b, b.idx)
       IN  IF keepsTranslation(t.value, sourceHash, t.hash)
           THEN scan([b EXCEPT !.newYaml = Append(@, Entry(t.value, t.hash)),
                               !.idx = @ + 1])
           ELSE [b EXCEPT !.status = "awaiting", !.called = @ \cup {b.idx}]

\* translate(sourceValue, gameType) for the entry at which the loop stands
translateCall(d, b) ==
  /\ dispatch' = [dispatch EXCEPT ![d] =
        IF b.status = "awaiting"
        THEN translateEntry([IdleDispatch EXCEPT !.mode = "translate",
                                                 !.text = b.file[b.idx],
                                                 !.gameType = b.gameType], 0)
        ELSE IdleDispatch]
  /\ stats' = [stats EXCEPT ![d] = [NoStats EXCEPT !.base = invoked[d]]]

\* processLanguageFile up to its first await of translate
ProcessLanguageFile ==
  /\ batch.status = "idle"
  /\ LET b == scan([batch EXCEPT !.idx = 1, !.status = "running",
                                 !.read = batch.target])
     IN  batch' = b /\ translateCall(FileProc, b)
  /\ UNCHANGED <<cache, queueVars, now, ticks, outage, failures, calls, faults, harness>>

\* after "await translate(...)": the entry is stored and the loop goes on
TranslateReturned ==
  /\ batch.status = "awaiting"
  /\ dispatch[FileProc].pc = "returned"
  /\ LET translatedValue == dispatch[FileProc].result
         sourceHash == hashing(batch.file[batch.idx])
         b == scan([batch EXCEPT
                      !.newYaml = Append(@, Entry(translatedValue, sourceHash)),
                      !.idx = @ + 1])
     IN  batch' = b /\ translateCall(FileProc, b)
  /\ UNCHANGED <<cache, queueVars, now, ticks, outage, failures, calls, faults, harness>>

\* "await translate(...)" rejects: nothing catches it in processLanguageFile
\* or processModTranslations, and main ends the process
TranslateRejected ==
  /\ batch.status = "awaiting"
  /\ dispatch[FileProc].pc = "thrown"
  /\ batch' = [batch EXCEPT !.status = "failed"]
  /\ UNCHANGED <<cache, dispatch, stats, queueVars, now, ticks, outage,
                 failures, calls, faults, harness>>

(***************************************************************************)
(* A direct caller of validateTranslation, as validateTranslationEntries   *)
(* and translate are: it holds a source text and a candidate translation   *)
(* and calls the validator once.                                           *)
(***************************************************************************)
\* candidates: every text of at most MaxLen characters over the delimiters
\* "$", "@", "[", "<", the icon mark "!", a letter, a Hangul syllable and
\* a blank
CandidateChars == {"$", "@", "[", "<", "a", "!", "K:wang", " "}
GeneratedTexts == UNION {[1..n -> CandidateChars] : n \in 0..MaxLen}

\* "#b a_b [x|E]": a style marker, a technical identifier, a game variable
SrcStyled == <<"#","b"," ","a","_","b"," ","[","x","|","E","]">>
\* "[F('a',GetN)]", written like [Concatenate(' or ', GetName)]
SrcConcat == <<"[","F","(","'","a","'",",","G","e","t","N",")","]">>
\* "[F('a\'b',GetN)]": the string literal holds an escaped quote
SrcEscaped ==
  <<"[","F","(","'","a","\\","'","b","'",",","G","e","t","N",")","]">>
\* "#b Ok#"
SrcBold == <<"#","b"," ","O","k","#">>

\* the Hangul of "translation:" (beon-yeok-ip-ni-da), an unwanted phrase
Beonyeok == <<"K:beon","K:yeok","K:ip","K:ni","K:da">>

\* candidate translations of SrcStyled, from none to all of its parts kept
StyledCandidates ==
  { SrcStyled,
    <<"#","b"," ","a","_","b">>,
    <<"#","b"," ","K:wang">>,
    <<"#","K:gang","K:jo"," ","K:wang">>,
    <<"#","K:gang","K:jo"," ","a","_","b"," ","[","x","|","E","]">>,
    Beonyeok \o <<" ","#","K:gang","K:jo"," ","K:wang">>,
    Beonyeok \o <<" ">> \o SrcStyled,
    <<"$","["," ">> \o Beonyeok \o <<" ","#","K:gang","K:jo"," ","K:wang">>,
    <<"#","b"," ","a","_","b"," ","[","x","|","E","]"," ","[","K:wang","|","E","]">>,
    <<"#","b"," ","a","_","b"," ","[","K:wang","|","E","]">> }

\* candidate translations of SrcConcat and SrcEscaped
ConcatCandidates ==
  { SrcConcat,
    <<"[","F","(","'","K:wang","'",",","G","e","t","N",")","]">>,
    <<"[","F","(","\"","K:wang","\"",",","G","e","t","N",")","]">>,
    <<"[","K:wang","(","'","a","'",",","K:wang",")","]">>,
    <<"[","K:wang","(","'","a","'",",","G","e","t","N",")","]">>,
    <<"[","G","(","'","a","'",",","G","e","t","N",")","]">>,
    <<"[","F","(","'","a","'",",","G","e","t","M",")","]">>,
    <<"K:wang">> }
EscapedCandidates ==
  { SrcEscaped,
    <<"[","F","(","'","K:wang","\\","'","K:wang","'",",","G","e","t","N",")","]">>,
    <<"[","F","(","'","K:wang","'",",","G","e","t","N",")","]">> }

\* candidate translations of SrcBold
BoldCandidates ==
  { <<"#","b"," ","K:wang","#">>,
    <<"#","K:gang","K:jo"," ","K:wang","#">>,
    <<"#","K:gang"," ","K:wang","#">>,
    <<"#","K:gang","K:jo","K:wang","#">>,
    <<"#","B"," ","K:wang","#">>,
    <<"K:wang">> }

\* the calls (sourceText, translatedText) of the model
ValidationCases ==
  ({SrcOk, SrcStyled} \X GeneratedTexts)
    \cup ({SrcStyled} \X StyledCandidates)
    \cup ({SrcConcat} \X ConcatCandidates)
    \cup ({SrcEscaped} \X EscapedCandidates)
    \cup ({SrcBold} \X BoldCandidates)

\* the caller before "validateTranslation(sourceValue, translatedValue)"
ValidationCall(case) ==
  [NoHarness EXCEPT !.pc = "calling", !.op = "validateTranslation",
                    !.source = case[1], !.translation = case[2]]

\* validateTranslation(sourceText, translatedText) returns; malformed is its
\* local malformedVariables
ValidateTranslation ==
  /\ harness.pc = "calling"
  /\ harness.op = "validateTranslation"
  /\ harness' =
       [harness EXCEPT
          !.pc = "returned",
          !.malformed = detectMalformedVariables(Trim(harness.translation)),
          !.isValid = validateTranslation(harness.source, harness.translation).isValid,
          !.reason = validateTranslation(harness.source, harness.translation).reason]
  /\ UNCHANGED <<cache, dispatch, stats, queueVars, now, ticks, outage,
                 failures, calls, faults, batch>>

(***************************************************************************)
(* A direct caller of the cache functions hasCache, getCache and setCache. *)
(***************************************************************************)
\* keys: "x", "y" and "vic3:x", a text that starts like a storage key of
\* another game
CacheKeys == { <<"x">>, <<"y">>, <<"v", "i", "c", "3", ":", "x">> }
CacheValues == { <<"K:wang">>, <<"K:ne">> }

\* await setCache(key, value, gameType)
CacheSet(key, value, gameType) ==
  /\ harness.op \in {"none", "setCache", "hasCache", "getCache"}
  /\ cache' = setCache(cache, key, value, gameType)
  /\ harness' = [NoHarness EXCEPT !.pc = "returned", !.op = "setCache",
                                  !.key = key, !.value = value,
                                  !.gameType = gameType, !.before = cache]
  /\ UNCHANGED <<dispatch, stats, queueVars, now, ticks, outage,
                 failures, calls, faults, batch>>

\* await hasCache(key, gameType)
CacheHas(key, gameType) ==
  /\ harness.op \in {"none", "setCache", "hasCache", "getCache"}
  /\ harness' = [NoHarness EXCEPT !.pc = "returned", !.op = "hasCache",
                                  !.key = key, !.gameType = gameType,
                                  !.found = hasCache(cache, key, gameType),
                                  !.before = cache]
  /\ UNCHANGED <<cache, dispatch, stats, queueVars, now, ticks, outage,
                 failures, calls, faults, batch>>

\* await getCache(key, gameType)
CacheGet(key, gameType) ==
  /\ harness.op \in {"none", "setCache", "hasCache", "getCache"}
  /\ harness' = [NoHarness EXCEPT !.pc = "returned", !.op = "getCache",
                                  !.key = key, !.gameType = gameType,
                                  !.got = getCache(cache, key, gameType),
                                  !.before = cache]
  /\ UNCHANGED <<cache, dispatch, stats, queueVars, now, ticks, outage,
                 failures, calls, faults, batch>>

(***************************************************************************)
(* Specifications.                                                         *)
(***************************************************************************)
QueueStep ==
  \E i \in 1..NProcs :
     \/ RateWaitDone(i)
     \/ TaskFail(i)
     \/ BackoffDone(i)
     \/ \E raw \in Responses : TaskRespond(i, raw)

\* the dispatcher over cache, AI client and queue
Next ==
  \/ \E d \in Dispatchers, request \in Requests :
        Call(d, request[1], request[2])
  \/ \E d \in Dispatchers :
        \/ HasCacheDone(d)
        \/ GetCacheDone(d)
        \/ RemoveCacheDone(d)
        \/ Resolved(d)
        \/ SetCacheDone(d)
  \/ QueueStep
  \/ AwaitTimer

Spec == Init /\ [][Next]_vars

\* the queue under direct callers of translateAI, with a fine-grained clock
NextQueue ==
  \/ \E d \in Procs : CallTranslateAI(d, SrcPadded)
  \/ \E i \in 1..NProcs :
        \/ RateWaitDone(i)
        \/ TaskFail(i)
        \/ BackoffDone(i)
        \/ TaskRespond(i, RespGood)
  \/ AwaitTimer
  \/ \E dt \in TickSteps : Tick(dt)

\* the service of SpecQueue may also fail MaxFailures times while it is up
InitQueue == InitWith({EmptyCache}, MaxFailures)

SpecQueue == InitQueue /\ [][NextQueue]_vars

\* one caller of translate over texts of every short-circuit form
NextLookup ==
  \/ \E request \in LookupRequests : Call(FileProc, request[1], request[2])
  \/ HasCacheDone(FileProc)
  \/ GetCacheDone(FileProc)
  \/ RemoveCacheDone(FileProc)
  \/ Resolved(FileProc)
  \/ SetCacheDone(FileProc)
  \/ QueueStep
  \/ AwaitTimer

SpecLookup == Init /\ [][NextLookup]_vars

\* the invalidation command and then the translation run of one file, over
\* a cache storage that may reject
NextBatch ==
  \/ \E args \in CommandArgs : InvalidateCommand(args)
  \/ ProcessLanguageFile
  \/ TranslateReturned
  \/ TranslateRejected
  \/ HasCacheDone(FileProc)
  \/ GetCacheDone(FileProc)
  \/ RemoveCacheDone(FileProc)
  \/ Resolved(FileProc)
  \/ SetCacheDone(FileProc)
  \/ CacheRejects(FileProc)
  \/ QueueStep
  \/ AwaitTimer

InitBatch ==
  /\ InitCore(BatchCaches, 0)
  /\ faults \in 0..MaxFaults
  /\ batch \in {[NoBatch EXCEPT !.target = t] : t \in TargetFiles}
  /\ harness = NoHarness

SpecBatch == InitBatch /\ [][NextBatch]_vars

\* the validator under one direct call for every case
NextValidate == ValidateTranslation

InitValidate ==
  /\ InitCore({EmptyCache}, 0)
  /\ outage = FALSE
  /\ faults = 0
  /\ batch = NoBatch
  /\ harness \in {ValidationCall(case) : case \in ValidationCases}

SpecValidate == InitValidate /\ [][NextValidate]_vars

\* the cache under direct calls of its three functions
NextCache ==
  \E key \in CacheKeys, gameType \in GameTypes :
     \/ \E value \in CacheValues : CacheSet(key, value, gameType)
     \/ CacheHas(key, gameType)
     \/ CacheGet(key, gameType)

InitCache ==
  /\ InitCore({EmptyCache}, 0)
  /\ outage = FALSE
  /\ faults = 0
  /\ batch = NoBatch
  /\ harness = NoHarness

SpecCache == InitCache /\ [][NextCache]_vars

(***************************************************************************)
(* Properties.                                                             *)
(***************************************************************************)
\* nothing more can happen in this run
Quiescent == ~ENABLED Next

\* service invocations made for the current translate call of d
aiCalls(d) == invoked[d] - stats[d].base

\* state of the promise that translateAI returned to d
aiPromise(d) ==
  IF dispatch[d].pc = "translateAI" THEN "pending"
  ELSE IF dispatch[d].pc \in {"resolved", "setCache"} THEN "fulfilled"
  ELSE "none"

\* C1: once translate(text, domain) has returned an accepted AI translation,
\* a second translate(text, domain) with the cache unchanged makes no AI
\* invocation and returns the same value.
C1_Idempotence ==
  \A d \in Procs :
     (stats[d].repeat /\ cache = stats[d].snapshot) =>
        /\ aiCalls(d) = 0
        /\ dispatch[d].pc # "translateAI"
        /\ dispatch[d].pc = "returned" => dispatch[d].result = stats[d].first

\* C2: translate never returns a cached value that fails validateTranslation
\* against the current source text, and a cached value that fails it is
\* evicted before the AI is called.
C2_CacheRevalidated ==
  \A d \in Procs :
     /\ (dispatch[d].pc = "returned" /\ dispatch[d].path = "cache") =>
           validateTranslation(Trim(dispatch[d].text), dispatch[d].result).isValid
     /\ (stats[d].invalidSeen /\ dispatch[d].pc # "removeCache") =>
           stats[d].evicted > 0

\* C3: every value that translate is about to write to the cache or has
\* returned from the AI path passed validateTranslation and is no refusal;
\* every rejected response raised the attempt counter by one and was
\* neither cached nor returned.
C3_AcceptedOnly ==
  \A d \in Procs :
     dispatch[d].mode = "translate" =>
        /\ (dispatch[d].pc = "setCache"
              \/ (dispatch[d].pc = "returned" /\ dispatch[d].path = "ai")) =>
             /\ validateTranslation(Trim(dispatch[d].text),
                                    dispatch[d].translatedText).isValid
             /\ ~Includes(ToLowerCase(dispatch[d].translatedText), LANGUAGE_MODEL)
        /\ dispatch[d].retry = stats[d].rejected
        /\ stats[d].cacheWrites =
             (IF dispatch[d].pc = "returned" /\ dispatch[d].path = "ai" THEN 1 ELSE 0)
        /\ (dispatch[d].pc = "returned" /\ dispatch[d].path = "ai") =>
             /\ dispatch[d].result = dispatch[d].translatedText
             /\ stats[d].responses = stats[d].rejected + 1

\* a dispatch returned an accepted translation after a rejected response
C3_Witness ==
  \E d \in Procs :
     /\ dispatch[d].pc = "returned" /\ dispatch[d].path = "ai"
     /\ stats[d].rejected >= 1

\* C4: a dispatch whose AI call fails on every invocation ends by raising
\* the retry-exhausted error after exactly 5 retries; it does not stay
\* pending.
C4_ServiceFailureRaises ==
  \A d \in Procs :
     (tasks[d].status = "abandoned" /\ Quiescent) =>
        /\ tasks[d].invocations = MAX_RETRIES + 1
        /\ dispatch[d].pc = "thrown"

\* C5: a dispatch all of whose AI responses are rejected raises an error
\* carrying the source text when the attempt counter exceeds 5, after one
\* AI invocation per attempt and without a cache write.
C5_ValidationCeiling ==
  \A d \in Procs :
     dispatch[d].mode = "translate" =>
        /\ stats[d].rejected <= RETRY_CEILING + 1
        /\ (dispatch[d].pc = "thrown") <=> (stats[d].rejected = RETRY_CEILING + 1)
        /\ dispatch[d].pc = "thrown" =>
             /\ dispatch[d].error = dispatch[d].text
             /\ stats[d].responses = RETRY_CEILING + 1
             /\ aiCalls(d) = RETRY_CEILING + 1
        /\ stats[d].rejected = stats[d].responses =>
             /\ stats[d].cacheWrites = 0
             /\ dispatch[d].pc # "setCache"
             /\ ~(dispatch[d].pc = "returned" /\ dispatch[d].path = "ai")

\* a dispatch raised the error after six rejected responses
C5_Witness ==
  \E d \in Procs : dispatch[d].pc = "thrown" /\ stats[d].rejected = 6

\* C6: when a task has failed on its first invocation and on all 5 retries,
\* the promise of translateAI is rejected; it does not stay pending.
C6_ExhaustionRejects ==
  \A d \in Procs :
     (tasks[d].status = "abandoned" /\ Quiescent) => aiPromise(d) # "pending"

\* C7: at most one activation of processQueue is active and at most one
\* task invocation is in flight.
C7_SingleInFlight ==
  /\ Len(loops) <= 1
  /\ Cardinality({i \in 1..Len(loops) : loops[i].pc = "inFlight"}) <= 1
  /\ Cardinality({d \in Procs : tasks[d].status = "running"}) <= 1
  /\ Len(loops) = 1 => isProcessing

\* two tasks were added while a third one is in flight
C7_Witness ==
  /\ Len(loops) = 1 /\ loops[1].pc = "inFlight"
  /\ Len(translationQueue) >= 2

\* C8: the first invocations of consecutive tasks start at least
\* RATE_LIMIT_INTERVAL apart.
C8_FirstStartsSpaced ==
  trace.gapFirst = -1 \/ trace.gapFirst >= RATE_LIMIT_INTERVAL

\* three tasks that complete at once: the third starts exactly
\* RATE_LIMIT_INTERVAL after the second
C8_Witness ==
  /\ trace.firstCount >= 3
  /\ trace.immediate
  /\ trace.gapFirst = RATE_LIMIT_INTERVAL

\* C9: any two consecutive invocations of the service, retries included,
\* start at least RATE_LIMIT_INTERVAL apart.
C9_AllStartsSpaced ==
  trace.gapAny = -1 \/ trace.gapAny >= RATE_LIMIT_INTERVAL

\* C10: a task that always fails is invoked exactly 1 + MAX_RETRIES times
\* and then abandoned; the k-th retry starts no earlier than RETRY_DELAYS[k]
\* after the failure, the waits do not decrease with k; a task that has
\* succeeded is not invoked again.
C10_RetryPolicy ==
  /\ \A d \in Procs :
        /\ tasks[d].invocations <= MAX_RETRIES + 1
        /\ tasks[d].status = "abandoned" => tasks[d].invocations = MAX_RETRIES + 1
        /\ tasks[d].status \in {"succeeded", "abandoned"} =>
             ~ \E i \in 1..Len(loops) :
                  loops[i].task = d /\ loops[i].pc \in {"inFlight", "backoff"}
  /\ \A i \in 1..Len(loops) :
        /\ loops[i].pc = "backoff" =>
             loops[i].deadline = trace.failTime + RetryDelay(loops[i].retryCount + 1)
        /\ loops[i].pc = "inFlight" =>
             tasks[loops[i].task].invocations = loops[i].retryCount + 1
  /\ trace.retryWait # -1 =>
        /\ trace.retryIdx \in 1..MAX_RETRIES
        /\ trace.retryWait >= RetryDelay(trace.retryIdx)
  /\ \A k \in 1..(MAX_RETRIES - 1) : RetryDelay(k) <= RetryDelay(k + 1)

\* a task was abandoned after its fifth retry
C10_Witness ==
  /\ \E d \in Procs : tasks[d].status = "abandoned"
  /\ trace.retryIdx = MAX_RETRIES

\* C11: tasks are first invoked in the order in which addQueue received
\* them.  The callers of the model submit in the order of their numbers, so
\* a task is never invoked before a task with a smaller number, and the
\* waiting tasks stand in the queue in the order of submission, behind every
\* task that has started.
C11_FifoDequeue ==
  /\ \A a, b \in Procs :
        (a < b /\ tasks[b].status # "none") => tasks[a].status # "none"
  /\ \A a, b \in Procs :
        (a < b /\ tasks[b].invocations >= 1) => tasks[a].invocations >= 1
  /\ \A i, j \in 1..Len(translationQueue) :
        i < j => translationQueue[i] < translationQueue[j]
  /\ \A i \in 1..Len(translationQueue) :
        tasks[translationQueue[i]].invocations = 0

\* the second task was taken from the queue while the third one waited
C11_Witness ==
  /\ tasks[2].status = "running"
  /\ trace.waiting >= 1
  /\ translationQueue = <<3>>

C14_SideEffects ==
  \A d \in Procs :
     (dispatch[d].mode = "translate" /\ dispatch[d].pc = "returned") =>
        /\ dispatch[d].path = "ai" =>
             /\ stats[d].cacheWrites = 1
             /\ hasCache(stats[d].snapshot, Trim(dispatch[d].text),
                         dispatch[d].gameType)
             /\ getCache(stats[d].snapshot, Trim(dispatch[d].text),
                         dispatch[d].gameType) = dispatch[d].result
        /\ dispatch[d].path # "ai" => stats[d].cacheWrites = 0
        /\ (dispatch[d].path # "ai" /\ dispatch[d].retry = 0) => aiCalls(d) = 0

\* C15: the translate call for an entry whose hash the invalidation command
\* has cleared makes an AI invocation although a cache entry exists: at
\* least one, and exactly one when the first response is accepted.
C15_InvalidatedRetranslated ==
  (/\ batch.status = "awaiting"
   /\ batch.idx \in batch.marked
   /\ dispatch[FileProc].pc = "returned") =>
     /\ aiCalls(FileProc) >= 1
     /\ stats[FileProc].rejected = 0 => aiCalls(FileProc) = 1

\* C16: when the task of the primary model has been abandoned after its
\* retries, translateAI has submitted the text to the secondary model; the
\* secondary model is not used while the primary task has not failed for
\* good.
C16_Fallback ==
  \A d \in Procs :
     /\ (tasks[d].status = "abandoned" /\ Quiescent) =>
           dispatch[d].model = SECONDARY_MODEL
     /\ tasks[d].status \in {"queued", "running", "succeeded"} =>
           dispatch[d].model # SECONDARY_MODEL

\* nothing more can happen in this translation run
QuiescentBatch == ~ENABLED NextBatch

\* C17: when translate has raised the retry-exhausted error for one entry
\* of the file, the run still ends with the file written, every entry of
\* the source file included except the one that failed.
C17_ErrorIsolation ==
  (/\ dispatch[FileProc].pc = "thrown"
   /\ dispatch[FileProc].error = dispatch[FileProc].text
   /\ QuiescentBatch) =>
     /\ batch.status = "written"
     /\ Len(batch.target) >= Len(batch.file) - 1

\* C18: a dispatch one of whose cache operations has failed is rejected
\* with the error of that operation: it returns no value, and no AI
\* invocation is made or pending for it after the failure.
C18_CacheErrorsPropagate ==
  \A d \in Procs :
     stats[d].faulted =>
        /\ dispatch[d].pc = "thrown"
        /\ dispatch[d].error = CACHE_ERROR
        /\ dispatch[d].result = NoText
        /\ aiCalls(d) = stats[d].atFault
        /\ tasks[d].status \notin {"queued", "running"}
        /\ batch.status \in {"awaiting", "failed"}

\* setCache failed after the response had been accepted, and the run failed
C18_Witness ==
  \E d \in Procs :
     /\ stats[d].faulted
     /\ stats[d].responses >= 1
     /\ stats[d].responses > stats[d].rejected
     /\ batch.status = "failed"

\* C19: for every entry k -> v of the dictionary of the domain and every
\* text equal to k up to letter case and surrounding blanks, hasDictionary
\* is true for the text and translate returns v.
C19_CaseInsensitiveLookup ==
  \A d \in Procs :
     dispatch[d].mode = "translate" =>
        LET table == getDictionaries(dispatch[d].gameType)
        IN  \A k \in DOMAIN table :
               ToLowerCase(Trim(dispatch[d].text)) = ToLowerCase(Trim(k)) =>
                  /\ hasDictionary(dispatch[d].text, dispatch[d].gameType)
                  /\ dispatch[d].pc = "returned"
                  /\ dispatch[d].result = table[k]

Delimiters == {"$", "POUND", "@"}
BracketOpeners == {"[", "<"}

\* an opening bracket stands next to a delimiter of another family
CrossDelimiterMix(t) ==
  \E i \in 1..(Len(t) - 1) :
     /\ t[i] \in Delimiters \cup BracketOpeners
     /\ t[i + 1] \in Delimiters \cup BracketOpeners
     /\ t[i] # t[i + 1]
     /\ {t[i], t[i + 1]} \cap BracketOpeners # {}

\* some delimiter occurs an odd number of times: one of them is not closed
UnterminatedDelimiter(t) ==
  \E c \in Delimiters : Cardinality({i \in 1..Len(t) : t[i] = c}) % 2 = 1

Validated == harness.pc = "returned" /\ harness.op = "validateTranslation"

\* C21: a candidate that contains a cross-delimiter placeholder mix or an
\* unterminated $, pound or @ delimiter is rejected by validateTranslation
\* with the malformed-placeholder reason, whatever the source text is.
C21_RejectsCorruption ==
  (/\ Validated
   /\ \/ CrossDelimiterMix(Trim(harness.translation))
      \/ UnterminatedDelimiter(Trim(harness.translation)))
    => (~harness.isValid /\ harness.reason = "malformed")

\* from position i on, every $, pound or @ of t opens a balanced variable
\* ($name$, @name@) or, for @, an icon reference @name!
RECURSIVE WellFormedFrom(_, _)
WellFormedFrom(t, i) ==
  IF i > Len(t) THEN TRUE
  ELSE IF t[i] \notin Delimiters THEN WellFormedFrom(t, i + 1)
  ELSE LET n == RunLen(t, i + 1, VarChar)
           close == CharAt(t, i + n + 1)
       IN  /\ n >= 1
           /\ close = t[i] \/ (t[i] = "@" /\ close = "!")
           /\ WellFormedFrom(t, i + n + 2)

\* the candidate has no bracket and only well-formed $, pound and @ tokens
OnlyGameSyntax(t) ==
  /\ \A i \in 1..Len(t) : t[i] \notin BracketOpeners
  /\ \E i \in 1..Len(t) : t[i] \in Delimiters
  /\ WellFormedFrom(t, 1)

\* C30: a candidate whose only $, pound or @ tokens are balanced variables
\* or icon references @name! is not reported by detectMalformedVariables.
C30_GameSyntaxNotCorruption ==
  (Validated /\ OnlyGameSyntax(Trim(harness.translation)))
    => harness.malformed = {}

\* the structures of the game variables of a text: each bracket expression
\* with its string literals replaced by the placeholder
Structures(t) ==
  {normalizeGameVariableStructure(v) : v \in Range(gameVariables(Trim(t)))}

\* the structures of the game variables that are no gender accessors
RequiredStructures(t) ==
  {normalizeGameVariableStructure(v) :
     v \in {w \in Range(gameVariables(Trim(t))) : ~genderFunctionPattern(w)}}

HasHangul(t) == \E k \in 1..Len(t) : t[k] \in Hangul

\* C22: a candidate whose bracket expressions equal those of the source
\* once every string literal is replaced by the placeholder passes the
\* game-variable checks, and a candidate in which an accessor or function
\* name outside the string literals is changed or written in Hangul is
\* rejected.
C22_StructuralEquivalence ==
  Validated =>
    /\ (/\ Structures(harness.source) # {}
        /\ Structures(harness.translation) = Structures(harness.source))
         => harness.reason \notin {"missingVariable", "koreanVariable"}
    /\ (\E sv \in RequiredStructures(harness.source) :
           sv \notin Structures(harness.translation))
         => ~harness.isValid
    /\ (/\ Structures(harness.source) # {}
        /\ \E tv \in Structures(harness.translation) : HasHangul(tv))
         => ~harness.isValid

\* C24: for every style marker "#identifier " of the source, a candidate
\* that does not contain the marker with its identifier unchanged is
\* rejected by validateTranslation.
C24_StyleMarkerPreserved ==
  (/\ Validated
   /\ \E marker \in stylePatterns(Trim(harness.source)) :
         ~Includes(Trim(harness.translation), marker))
    => ~harness.isValid

\* the checks of validateTranslation, each taken on its own
FailsMalformed(source, translation) ==
  detectMalformedVariables(Trim(translation)) # {}
FailsPhrase(source, translation) == hasUnwantedPhrase(Trim(translation))
FailsStyle(source, translation) ==
  /\ \E marker \in stylePatterns(Trim(source)) : ~Includes(Trim(translation), marker)
  /\ translatedStylePattern(Trim(translation))
FailsIdentifier(source, translation) ==
  \E id \in technicalIdentifiers(Trim(source)) : ~Includes(Trim(translation), id)
FailsGameVariable(source, translation) ==
  /\ Structures(source) # {}
  /\ \/ \E sv \in RequiredStructures(source) : sv \notin Structures(translation)
     \/ \E v \in Range(gameVariables(Trim(translation))) : hasKorean(v)

\* the reasons in the order of the checks
ReasonOrder == <<"malformed", "unwanted", "style", "identifier", "gameVariable">>
FailedChecks(source, translation) ==
  {k \in 1..5 :
     \/ k = 1 /\ FailsMalformed(source, translation)
     \/ k = 2 /\ FailsPhrase(source, translation)
     \/ k = 3 /\ FailsStyle(source, translation)
     \/ k = 4 /\ FailsIdentifier(source, translation)
     \/ k = 5 /\ FailsGameVariable(source, translation)}
ReasonKind(reason) ==
  IF reason \in {"missingVariable", "koreanVariable"} THEN "gameVariable" ELSE reason

\* C23: validateTranslation accepts only if every check passes, and the
\* reason it reports is that of the first failing check in the order
\* malformed placeholder, unwanted phrase, style marker, technical
\* identifier, game variable.
C23_CheckOrder ==
  Validated =>
    LET failed == FailedChecks(harness.source, harness.translation)
    IN  /\ harness.isValid <=> failed = {}
        /\ failed # {} =>
              ReasonKind(harness.reason) = ReasonOrder[Min(failed)]

\* a candidate that fails all five checks was given the malformed reason
C23_Witness ==
  /\ Validated
  /\ FailedChecks(harness.source, harness.translation) = 1..5
  /\ harness.reason = "malformed"

(***************************************************************************)
(* Properties of the cache functions (SpecCache).                          *)
(***************************************************************************)
\* the storage key that the claim gives to (key, domain)
NamespacedKey(key, domain) ==
  IF domain = "ck3" THEN key
  ELSE IF domain = "vic3" THEN <<"v", "i", "c", "3", ":">> \o key
  ELSE <<"?">>

\* C25: the storage key of (key, domain) is the key itself for ck3 and
\* "<domain>:<key>" for every other domain, and setCache, hasCache and
\* getCache called with the same (key, domain) address that storage key.
C25_CacheKeyNamespacing ==
  LET sk == NamespacedKey(harness.key, harness.gameType)
  IN  /\ harness.op = "setCache" =>
            /\ sk \in DOMAIN cache /\ cache[sk] = harness.value
            /\ DOMAIN cache = DOMAIN harness.before \cup {sk}
            /\ \A k \in DOMAIN harness.before \ {sk} : cache[k] = harness.before[k]
      /\ harness.op = "hasCache" => (harness.found <=> sk \in DOMAIN cache)
      /\ harness.op = "getCache" =>
            harness.got = IF sk \in DOMAIN cache THEN cache[sk] ELSE NULL

\* a value stored for vic3 is read back while ck3 holds the same key
C25_Witness ==
  /\ harness.op = "getCache" /\ harness.gameType = "vic3"
  /\ harness.got \in CacheValues
  /\ harness.key \in DOMAIN cache
  /\ cache[harness.key] # harness.got

\* C29: the mapping from (key, domain) to the storage key is injective: a
\* setCache for one domain changes the result of hasCache and getCache for
\* no key of another domain.
C29_DomainIsolation ==
  harness.op = "setCache" =>
    \A domain \in GameTypes \ {harness.gameType}, key \in CacheKeys :
       /\ hasCache(cache, key, domain) = hasCache(harness.before, key, domain)
       /\ getCache(cache, key, domain) = getCache(harness.before, key, domain)

(***************************************************************************)
(* Properties of the file processing (SpecBatch), continued.               *)
(***************************************************************************)
\* the entry of key i that processLanguageFile read from the translation
\* file (from the source file when there is no translation file)
ReadEntry(i) ==
  IF batch.read = <<>> THEN Entry(batch.file[i], NULL) ELSE batch.read[i]

\* the loop of processLanguageFile has come to key i
Reached(i) == i <= Len(batch.newYaml) \/ i \in batch.called

\* the file has no translation for key i, or one with another hash
NeedsTranslation(i) ==
  \/ ReadEntry(i).value \in {NULL, <<>>}
  \/ ReadEntry(i).hash # hashing(batch.file[i])

\* C26: for every key that the loop of processLanguageFile has come to,
\* translate is called if and only if the translation file has no
\* translation for the key or the hash stored with it differs from the hash
\* of the source text; an entry with an equal hash is carried over with
\* value and hash unchanged, and a translated entry is stored with the hash
\* of the source text.
C26_HashChangeDetection ==
  batch.status \in {"awaiting", "written", "failed"} =>
    \A i \in 1..Len(batch.file) :
       Reached(i) =>
         /\ i \in batch.called <=> NeedsTranslation(i)
         /\ i <= Len(batch.newYaml) =>
               IF NeedsTranslation(i)
               THEN batch.newYaml[i].hash = hashing(batch.file[i])
               ELSE batch.newYaml[i] = ReadEntry(i)

\* a written file in which an entry with a stale hash was translated again
\* and an entry with the current hash was carried over
C26_Witness ==
  /\ batch.status = "written"
  /\ \E i \in batch.called :
        /\ ReadEntry(i).value \notin {NULL, <<>>}
        /\ ReadEntry(i).hash \notin {NULL, <<>>}
        /\ batch.target[i].hash = hashing(batch.file[i])
  /\ \E j \in 1..Len(batch.file) :
        j \notin batch.called /\ batch.target[j] = ReadEntry(j)

\* C27: every submitted task is eventually invoked, also a task submitted
\* after an earlier task has exhausted its retries: whenever tasks are
\* waiting in translationQueue, an activation of processQueue is running or
\* the next addQueue starts one.
C27_QueueLiveness ==
  translationQueue # <<>> =>
     \/ Len(loops) >= 1
     \/ startsProcessing(isProcessing)

\* a task has reached its terminal outcome
Settled(d) == tasks[d].status \in {"succeeded", "abandoned"}

\* C28: the queue does not invoke a task before every task submitted earlier
\* has succeeded or exhausted its retries, the backoff waits included, so no
\* task reaches its outcome before an earlier one.  The callers submit in the
\* order of their numbers.
C28_SerializedRetries ==
  \A a, b \in Procs :
     a < b =>
        /\ tasks[b].invocations >= 1 => Settled(a)
        /\ Settled(b) => Settled(a)
        /\ (tasks[a].status = "running" /\ tasks[b].status # "none") =>
              /\ tasks[b].status = "queued"
              /\ invoked[b] = 0

\* the second task was invoked after the first one had failed, waited for
\* its backoff and succeeded on a retry
C28_Witness ==
  /\ tasks[1].status = "succeeded" /\ tasks[1].invocations >= 2
  /\ tasks[2].invocations >= 1
  /\ trace.waiting >= 1

=============================================================================
